---- MODULE Spec2Model ----
(***************************************************************************)
(* CardSense: the Store (cards, transactions, sent-notification record),   *)
(* the card and transaction editors, the SMS ingestion adapter, the        *)
(* aggregator memos and the spending notifier of src/App.tsx and its       *)
(* components, as one state machine.                                       *)
(*                                                                         *)
(* Text the code inspects character by character (card name, last4, limit  *)
(* and amount fields, the SMS textarea) is a sequence of one-character     *)
(* strings.  Text the code only tests for emptiness or equality (merchant, *)
(* category) is a string.                                                  *)
(* Amounts and limits are whole currency units; percentages are compared   *)
(* exactly (spent * 100 >= threshold * limit).                             *)
(***************************************************************************)
EXTENDS Integers, Sequences, FiniteSets, TLC

VARIABLES
    now,                    \* the wall clock read by Date.now() / new Date()
    cards,                  \* App: useLocalStorage('cards')
    transactions,           \* App: useLocalStorage('transactions')
    sentNotifications,      \* App: useLocalStorage('sentNotifications'), the set of keys mapped to true
    notificationPermission, \* App: useState('default')
    cardExpenses,           \* App: useMemo over [cards, transactions]
    monthlySummary,         \* App: useMemo over [transactions]
    isCardModalOpen,        \* App: useState(false)
    cardToEdit,             \* App: useState<Card | null>(null)
    cardModalError,         \* AddCardModal: useState('') error
    isTxModalOpen,          \* App: useState(false)
    transactionToEdit,      \* App: useState<Transaction | null>(null)
    txModalError,           \* AddTransactionModal: useState('') error
    smsInput,               \* App: useState('')
    isLoading,              \* App: useState(false)
    error,                  \* App: useState<string | null>(null)
    requests,               \* classification calls in flight, each with the cards its handler closed over
    notifications,          \* the notification surface: key -> number of alerts emitted
    belowAfterSent          \* history: keys evaluated below their threshold after their alert was sent

vars ==
    <<now, cards, transactions, sentNotifications, notificationPermission,
      cardExpenses, monthlySummary, isCardModalOpen, cardToEdit, cardModalError,
      isTxModalOpen, transactionToEdit, txModalError, smsInput, isLoading, error,
      requests, notifications, belowAfterSent>>

\* What a render and its effects may change.
storeVars ==
    <<cards, transactions, sentNotifications, notificationPermission,
      cardExpenses, monthlySummary, notifications, belowAfterSent>>

cardModalVars == <<isCardModalOpen, cardToEdit, cardModalError>>

txModalVars == <<isTxModalOpen, transactionToEdit, txModalError>>

smsVars == <<smsInput, isLoading, error, requests>>

-----------------------------------------------------------------------------
(* Bounds *)

MaxNow == 2

MaxCards == 2

MaxTx == 2

-----------------------------------------------------------------------------
(* Values *)

NULL == [null |-> TRUE]

\* A JavaScript number that may be NaN.
Num(v) == [nan |-> FALSE, v |-> v]

NaN == [nan |-> TRUE, v |-> 0]

isNaN(x) == x.nan

Categories ==
    <<"Bills", "Entertainment", "Food", "Shopping", "Fuel", "Groceries",
      "Health", "Office", "Travel", "Transfer", "Other">>

gradients ==
    <<"from-blue-400 to-purple-500", "from-green-400 to-blue-500",
      "from-pink-500 to-orange-400", "from-indigo-500 to-purple-600",
      "from-teal-400 to-cyan-500", "from-rose-400 to-pink-500">>

thresholds == <<30, 50, 85>>

Range(s) == {s[i] : i \in 1..Len(s)}

-----------------------------------------------------------------------------
(* The clock.  A reading t stands for an instant: readings 0 and 1 are two  *)
(* milliseconds of December 2025, reading 2 is an instant of December 2026  *)
(* (the same month of another year), and each later reading is an instant   *)
(* of the January after the one before: January 2027, January 2028, ...     *)

Period(t) == IF t = 0 THEN 0 ELSE t - 1

getMonth(t) == IF Period(t) <= 1 THEN 11 ELSE 0

getFullYear(t) == 2025 + Period(t)

\* new Date().toISOString() and new Date(tx.date): the ISO text keeps the
\* millisecond, so parsing it gives the instant back.
toISOString(t) == <<"ISO", t>>

DateOf(iso) == iso[2]

-----------------------------------------------------------------------------
(* Text *)

Digit == {"0", "1", "2", "3", "4", "5", "6", "7", "8", "9"}

DigitVal(c) ==
    CASE c = "0" -> 0 [] c = "1" -> 1 [] c = "2" -> 2 [] c = "3" -> 3
      [] c = "4" -> 4 [] c = "5" -> 5 [] c = "6" -> 6 [] c = "7" -> 7
      [] c = "8" -> 8 [] c = "9" -> 9

\* String.prototype.trim on the characters of the model (the blank is " ").
RECURSIVE trimStart(_)
trimStart(s) ==
    IF Len(s) > 0 /\ s[1] = " " THEN trimStart(Tail(s)) ELSE s

RECURSIVE trimEnd(_)
trimEnd(s) ==
    IF Len(s) > 0 /\ s[Len(s)] = " " THEN trimEnd(SubSeq(s, 1, Len(s) - 1)) ELSE s

trim(s) == trimEnd(trimStart(s))

LowerChar(c) ==
    CASE c = "V" -> "v" [] c = "M" -> "m" [] c = "A" -> "a" [] OTHER -> c

toLowerCase(s) == [i \in 1..Len(s) |-> LowerChar(s[i])]

\* The onChange of the last4 field: value.replace(/\D/g, '').slice(0, 4).
IsDigit(c) == c \in Digit

setLast4(value) ==
    LET digits == SelectSeq(value, IsDigit)
    IN  SubSeq(digits, 1, IF Len(digits) < 4 THEN Len(digits) ELSE 4)

\* A variant of TestLast4 for the pattern /^\d{1,4}$/.
TestLast4_upToFour(s) ==
    Len(s) >= 1 /\ Len(s) <= 4 /\ \A i \in 1..Len(s) : s[i] \in Digit

\* /^\d{4}$/.test(s)
TestLast4(s) == Len(s) = 4 /\ \A i \in 1..Len(s) : s[i] \in Digit

\* The longest prefix of digits of s, as a number (0 for none).
RECURSIVE DigitsValue(_, _)
DigitsValue(s, acc) ==
    IF Len(s) > 0 /\ s[1] \in Digit
    THEN DigitsValue(Tail(s), acc * 10 + DigitVal(s[1]))
    ELSE acc

\* parseFloat on text without a fraction or an exponent: leading blanks are
\* skipped, a sign is read, then the longest run of digits; NaN without a digit.
parseFloat(s) ==
    LET t == trimStart(s)
        signed == Len(t) > 0 /\ t[1] \in {"-", "+"}
        body == IF signed THEN Tail(t) ELSE t
    IN  IF Len(body) = 0 \/ body[1] \notin Digit THEN NaN
        ELSE IF signed /\ t[1] = "-" THEN Num(0 - DigitsValue(body, 0))
        ELSE Num(DigitsValue(body, 0))

-----------------------------------------------------------------------------
(* Aggregator *)

Get(m, k) == IF k \in DOMAIN m THEN m[k] ELSE 0

Put(m, k, v) == [x \in (DOMAIN m) \cup {k} |-> IF x = k THEN v ELSE m[x]]

\* A variant of InMonth that compares the month and not the year.
InMonth_monthOnly(tx, t) ==
    getMonth(DateOf(tx.date)) = getMonth(t)

InMonth(tx, t) ==
    /\ getMonth(DateOf(tx.date)) = getMonth(t)
    /\ getFullYear(DateOf(tx.date)) = getFullYear(t)

RECURSIVE ExpensesFold(_, _, _, _)
ExpensesFold(expenses, txs, i, t) ==
    IF i > Len(txs) THEN expenses
    ELSE IF InMonth(txs[i], t)
    THEN ExpensesFold(Put(expenses, txs[i].cardId,
                          Get(expenses, txs[i].cardId) + txs[i].amount),
                      txs, i + 1, t)
    ELSE ExpensesFold(expenses, txs, i + 1, t)

\* The cardExpenses memo computed at instant t.
ComputeCardExpenses(cs, txs, t) ==
    ExpensesFold([id \in {cs[i].id : i \in 1..Len(cs)} |-> 0], txs, 1, t)

\* The summary Map, a sequence of <<category, amount>> in insertion order.
MapIndex(m, k) ==
    IF \E i \in 1..Len(m) : m[i][1] = k
    THEN CHOOSE i \in 1..Len(m) : m[i][1] = k
    ELSE 0

MapGet(m, k) == IF MapIndex(m, k) = 0 THEN 0 ELSE m[MapIndex(m, k)][2]

MapSet(m, k, v) ==
    IF MapIndex(m, k) = 0 THEN Append(m, <<k, v>>)
    ELSE [m EXCEPT ![MapIndex(m, k)] = <<k, v>>]

RECURSIVE SummaryFold(_, _, _, _)
SummaryFold(summary, txs, i, t) ==
    IF i > Len(txs) THEN summary
    ELSE IF InMonth(txs[i], t)
    THEN SummaryFold(MapSet(summary, txs[i].category,
                            MapGet(summary, txs[i].category) + txs[i].amount),
                     txs, i + 1, t)
    ELSE SummaryFold(summary, txs, i + 1, t)

RECURSIVE TotalFold(_, _, _)
TotalFold(txs, i, t) ==
    IF i > Len(txs) THEN 0
    ELSE (IF InMonth(txs[i], t) THEN txs[i].amount ELSE 0) + TotalFold(txs, i + 1, t)

\* Array.prototype.sort((a, b) => b.value - a.value): stable, descending.
\* A variant of SortByValue that leaves the entries in the order of Categories.
SortByValue_unsorted(s) == s

RECURSIVE InsertByValue(_, _)
InsertByValue(sorted, e) ==
    IF Len(sorted) = 0 THEN <<e>>
    ELSE IF sorted[Len(sorted)].value >= e.value THEN Append(sorted, e)
    ELSE Append(InsertByValue(SubSeq(sorted, 1, Len(sorted) - 1), e), sorted[Len(sorted)])

RECURSIVE SortByValue(_)
SortByValue(s) ==
    IF Len(s) = 0 THEN <<>>
    ELSE InsertByValue(SortByValue(SubSeq(s, 1, Len(s) - 1)), s[Len(s)])

\* The monthlySummary memo computed at instant t.  A percentage is the
\* fraction pctNum / pctDen (0 / 1 when total is not positive).
ComputeMonthlySummary(txs, t) ==
    LET summary == SummaryFold([i \in 1..Len(Categories) |-> <<Categories[i], 0>>], txs, 1, t)
        total == TotalFold(txs, 1, t)
        kept == SelectSeq(summary, LAMBDA e : e[2] > 0)
        entry(e) == [name |-> e[1], value |-> e[2],
                     pctNum |-> IF total > 0 THEN e[2] * 100 ELSE 0,
                     pctDen |-> IF total > 0 THEN total ELSE 1]
    IN  [pieData |-> SortByValue([i \in 1..Len(kept) |-> entry(kept[i])]),
         total |-> total]

-----------------------------------------------------------------------------
(* Notifier *)

\* `${card.id}-${currentYear}-${currentMonth}-${threshold}`: the parts are
\* digits and a fixed prefix joined by "-", so the text determines the parts.
\* A variant of notificationKey without the year and the month.
notificationKey_cardThreshold(card, t, threshold) ==
    <<card.id, 0, 0, threshold>>

notificationKey(card, t, threshold) ==
    <<card.id, getFullYear(t), getMonth(t), threshold>>

\* percentage = card.limit > 0 ? (spent / card.limit) * 100 : 0, and
\* percentage >= threshold.
percentageAtLeast(spent, limit, threshold) ==
    /\ ~isNaN(limit)
    /\ limit.v > 0
    /\ spent * 100 >= threshold * limit.v

\* The condition under which the effect sends the alert of a key.
\* A variant of shouldNotify that does not consult the sent record.
shouldNotify_ignoringSent(spent, card, threshold, sent, t) ==
    percentageAtLeast(spent, card.limit, threshold)

shouldNotify(spent, card, threshold, sent, t) ==
    /\ percentageAtLeast(spent, card.limit, threshold)
    /\ notificationKey(card, t, threshold) \notin sent

\* The <<card index, threshold>> pairs for which one run of the effect sends
\* an alert, given the render's memo ce and sent record.
\* A variant of AlertsOfRun that does not look at the permission.
AlertsOfRun_anyPermission(cs, ce, p, sent, t) ==
    {ct \in (1..Len(cs)) \X Range(thresholds) :
        shouldNotify(Get(ce, cs[ct[1]].id), cs[ct[1]], ct[2], sent, t)}

AlertsOfRun(cs, ce, p, sent, t) ==
    IF p # "granted" THEN {}
    ELSE {ct \in (1..Len(cs)) \X Range(thresholds) :
            shouldNotify(Get(ce, cs[ct[1]].id), cs[ct[1]], ct[2], sent, t)}

KeysOfRun(cs, alerts, t) ==
    {notificationKey(cs[ct[1]], t, ct[2]) : ct \in alerts}

\* The functional updates prev => ({...prev, [key]: true}) queued by one run,
\* applied in turn to the latest record.
setSentNotifications(prev, keys) == prev \cup keys

\* new Notification(...) once per alert of the run.
sendSpendingNotification(log, cs, alerts, t) ==
    [k \in (DOMAIN log) \cup KeysOfRun(cs, alerts, t) |->
        Get(log, k) + Cardinality({ct \in alerts : notificationKey(cs[ct[1]], t, ct[2]) = k})]

\* Keys already sent that a run of the effect finds below their threshold.
BelowOfRun(cs, ce, p, sent, t) ==
    IF p # "granted" THEN {}
    ELSE {notificationKey(cs[ct[1]], t, ct[2]) :
            ct \in {x \in (1..Len(cs)) \X Range(thresholds) :
                      /\ notificationKey(cs[x[1]], t, x[2]) \in sent
                      /\ ~percentageAtLeast(Get(ce, cs[x[1]].id), cs[x[1]].limit, x[2])}}

-----------------------------------------------------------------------------
(* One render after a handler set the cards to cs, the transactions to txs  *)
(* and the permission to p: the memos whose dependencies changed are        *)
(* recomputed, the notification effect runs when one of its dependencies    *)
(* changed, and runs once more in the render its own update causes.         *)

Render(cs, txs, p, cardsChanged, txChanged) ==
    LET ce == IF cardsChanged \/ txChanged
              THEN ComputeCardExpenses(cs, txs, now) ELSE cardExpenses
        ms == IF txChanged THEN ComputeMonthlySummary(txs, now) ELSE monthlySummary
        runs == cardsChanged \/ txChanged \/ p # notificationPermission
        alerts1 == IF runs THEN AlertsOfRun(cs, ce, p, sentNotifications, now) ELSE {}
        sent1 == setSentNotifications(sentNotifications, KeysOfRun(cs, alerts1, now))
        log1 == sendSpendingNotification(notifications, cs, alerts1, now)
        again == alerts1 # {}
        alerts2 == IF again THEN AlertsOfRun(cs, ce, p, sent1, now) ELSE {}
        sent2 == setSentNotifications(sent1, KeysOfRun(cs, alerts2, now))
        log2 == sendSpendingNotification(log1, cs, alerts2, now)
    IN  /\ cards' = cs
        /\ transactions' = txs
        /\ notificationPermission' = p
        /\ cardExpenses' = ce
        /\ monthlySummary' = ms
        /\ sentNotifications' = sent2
        /\ notifications' = log2
        /\ belowAfterSent' =
             IF runs THEN belowAfterSent \cup BelowOfRun(cs, ce, p, sentNotifications, now)
             ELSE belowAfterSent

-----------------------------------------------------------------------------
(* Card editor *)

CardIds == {cards[i].id : i \in 1..Len(cards)}

\* cards.findIndex(c => c.id === id), 1-based; 0 for -1.
findIndex(cs, id) ==
    IF \E i \in 1..Len(cs) : cs[i].id = id
    THEN CHOOSE i \in 1..Len(cs) : cs[i].id = id /\ \A j \in 1..(i - 1) : cs[j].id # id
    ELSE 0

\* The cards after handleSaveCard(card).
\* A variant of handleSaveCard that keeps only the saved card.
handleSaveCard_replacingAll(card) == <<card>>

handleSaveCard(card) ==
    IF findIndex(cards, card.id) > 0
    THEN [cards EXCEPT ![findIndex(cards, card.id)] = card]
    ELSE Append(cards, card)

editedId == IF cardToEdit = NULL THEN NULL ELSE cardToEdit.id

\* A variant of nameExists that compares the names as written.
nameExists_caseSensitive(trimmedName) ==
    \E i \in 1..Len(cards) :
        /\ cards[i].id # editedId
        /\ trim(cards[i].name) = trimmedName

nameExists(trimmedName) ==
    LET lowered == toLowerCase(trimmedName)
    IN  \E i \in 1..Len(cards) :
            /\ cards[i].id # editedId
            /\ toLowerCase(trim(cards[i].name)) = lowered

\* A variant of last4Exists that finds no card.
last4Exists_never(last4) == FALSE

last4Exists(last4) ==
    \E i \in 1..Len(cards) :
        /\ cards[i].id # editedId
        /\ cards[i].last4 = last4

\* The error handleSubmit of AddCardModal sets for the fields, "" for none.
cardError(name, last4, limit) ==
    LET trimmedName == trim(name)
        parsed == parseFloat(limit)
    IN  IF Len(trimmedName) = 0 \/ Len(last4) = 0 \/ Len(limit) = 0
        THEN "All fields are required."
        ELSE IF ~TestLast4(last4) THEN "Last 4 digits must be exactly 4 numbers."
        ELSE IF ~isNaN(parsed) /\ parsed.v <= 0
        THEN "Limit must be a positive number."
        ELSE IF nameExists(trimmedName) THEN "A card with this name already exists."
        ELSE IF last4Exists(last4) THEN "A card with these last 4 digits already exists."
        ELSE ""

cardData(name, last4, limit, g) ==
    [id |-> IF cardToEdit # NULL THEN cardToEdit.id ELSE <<"card", now>>,
     name |-> trim(name),
     last4 |-> last4,
     limit |-> parseFloat(limit),
     gradient |-> IF cardToEdit # NULL THEN cardToEdit.gradient ELSE gradients[g]]

\* The header's "+" button; the modal's effect clears its error on opening.
\* A modal covers the page, so the buttons under it cannot be clicked.
handleOpenAddCardModal ==
    /\ ~isCardModalOpen /\ ~isTxModalOpen
    /\ Len(cards) < MaxCards
    /\ cardToEdit' = NULL
    /\ isCardModalOpen' = TRUE
    /\ cardModalError' = ""
    /\ UNCHANGED <<now, storeVars, txModalVars, smsVars>>

\* The pencil of a card (any card can be brought to the top of the stack).
handleOpenEditModal(i) ==
    /\ ~isCardModalOpen /\ ~isTxModalOpen
    /\ i \in 1..Len(cards)
    /\ cardToEdit' = cards[i]
    /\ isCardModalOpen' = TRUE
    /\ cardModalError' = ""
    /\ UNCHANGED <<now, storeVars, txModalVars, smsVars>>

AddCardModal_onClose ==
    /\ isCardModalOpen
    /\ isCardModalOpen' = FALSE
    /\ UNCHANGED <<now, storeVars, cardToEdit, cardModalError, txModalVars, smsVars>>

\* handleSubmit of AddCardModal with the form holding name, last4 and limit,
\* and g the gradient Math.random() picks.
AddCardModal_handleSubmit(name, last4, limit, g) ==
    /\ isCardModalOpen
    /\ LET err == cardError(name, last4, limit)
       IN  IF err # ""
           THEN /\ cardModalError' = err
                /\ UNCHANGED <<now, storeVars, isCardModalOpen, cardToEdit, txModalVars, smsVars>>
           ELSE /\ Render(handleSaveCard(cardData(name, last4, limit, g)), transactions,
                          notificationPermission, TRUE, FALSE)
                /\ isCardModalOpen' = FALSE
                /\ UNCHANGED <<now, cardToEdit, cardModalError, txModalVars, smsVars>>

-----------------------------------------------------------------------------
(* Transaction editor *)

TxIds == {transactions[i].id : i \in 1..Len(transactions)}

\* Transactions that an open add form or a call in flight may still append.
PendingAdds ==
    Len(requests) + (IF isTxModalOpen /\ transactionToEdit = NULL THEN 1 ELSE 0)

\* The transactions after handleSaveTransaction(data); data.editing stands for
\* a truthy data.id.
\* A variant of handleSaveTransaction that replaces the edited record by a
\* new one instead of merging the data into it.
handleSaveTransaction_recreating(txs, data) ==
    LET newTransaction == [id |-> <<"tx", now>>,
                           cardId |-> data.cardId,
                           merchant |-> data.merchant,
                           amount |-> data.amount,
                           date |-> toISOString(now),
                           category |-> data.category]
    IN IF data.editing
       THEN [i \in 1..Len(txs) |-> IF txs[i].id = data.id THEN newTransaction ELSE txs[i]]
       ELSE Append(txs, newTransaction)

\* A variant of handleSaveTransaction whose edit stamps the record with the
\* current time.
handleSaveTransaction_redating(txs, data) ==
    IF data.editing
    THEN [i \in 1..Len(txs) |->
            IF txs[i].id = data.id
            THEN [txs[i] EXCEPT !.cardId = data.cardId, !.merchant = data.merchant,
                                !.amount = data.amount, !.category = data.category,
                                !.date = toISOString(now)]
            ELSE txs[i]]
    ELSE Append(txs, [id |-> <<"tx", now>>,
                      cardId |-> data.cardId,
                      merchant |-> data.merchant,
                      amount |-> data.amount,
                      date |-> toISOString(now),
                      category |-> data.category])

handleSaveTransaction(txs, data) ==
    IF data.editing
    THEN [i \in 1..Len(txs) |->
            IF txs[i].id = data.id
            THEN [txs[i] EXCEPT !.cardId = data.cardId, !.merchant = data.merchant,
                                !.amount = data.amount, !.category = data.category]
            ELSE txs[i]]
    ELSE Append(txs, [id |-> <<"tx", now>>,
                      cardId |-> data.cardId,
                      merchant |-> data.merchant,
                      amount |-> data.amount,
                      date |-> toISOString(now),
                      category |-> data.category])

\* The error handleSubmit of AddTransactionModal sets for the fields, "" for none.
txError(hasCardId, merchant, amount) ==
    IF ~hasCardId \/ merchant = "" \/ Len(amount) = 0
    THEN "All fields are required."
    ELSE IF isNaN(parseFloat(amount)) \/ parseFloat(amount).v <= 0
    THEN "Amount must be a positive number."
    ELSE ""

txData(cardId, merchant, amount, category) ==
    [editing |-> transactionToEdit # NULL,
     id |-> IF transactionToEdit # NULL THEN transactionToEdit.id ELSE NULL,
     cardId |-> cardId,
     merchant |-> merchant,
     amount |-> amount,
     category |-> category]

\* The card select offers the current cards; the form starts on the edited
\* transaction's card, or on the first card.
CardChoices ==
    CardIds \cup (IF transactionToEdit # NULL THEN {transactionToEdit.cardId} ELSE {})

handleOpenAddTxModal ==
    /\ ~isCardModalOpen /\ ~isTxModalOpen
    /\ Len(transactions) + PendingAdds < MaxTx
    /\ transactionToEdit' = NULL
    /\ isTxModalOpen' = TRUE
    /\ txModalError' = ""
    /\ UNCHANGED <<now, storeVars, cardModalVars, smsVars>>

handleOpenEditTxModal(i) ==
    /\ ~isCardModalOpen /\ ~isTxModalOpen
    /\ i \in 1..Len(transactions)
    /\ transactionToEdit' = transactions[i]
    /\ isTxModalOpen' = TRUE
    /\ txModalError' = ""
    /\ UNCHANGED <<now, storeVars, cardModalVars, smsVars>>

AddTransactionModal_onClose ==
    /\ isTxModalOpen
    /\ isTxModalOpen' = FALSE
    /\ UNCHANGED <<now, storeVars, cardModalVars, transactionToEdit, txModalError, smsVars>>

\* handleSubmit of AddTransactionModal; the form is rendered only when there
\* is a card.
AddTransactionModal_handleSubmit(cardId, merchant, amount, category) ==
    /\ isTxModalOpen
    /\ Len(cards) > 0
    /\ cardId \in CardChoices
    /\ IF txError(TRUE, merchant, amount) # ""
       THEN /\ txModalError' = txError(TRUE, merchant, amount)
            /\ UNCHANGED <<now, storeVars, cardModalVars, isTxModalOpen, transactionToEdit, smsVars>>
       ELSE /\ Render(cards,
                      handleSaveTransaction(transactions,
                          txData(cardId, merchant, parseFloat(amount).v, category)),
                      notificationPermission, FALSE, TRUE)
            /\ isTxModalOpen' = FALSE
            /\ UNCHANGED <<now, cardModalVars, transactionToEdit, txModalError, smsVars>>

\* The trash button of a listed transaction, and the answer to window.confirm.
\* A variant of handleDeleteTransaction that does not wait for the answer.
handleDeleteTransaction_unconfirmed(transactionId, confirmed) ==
    /\ ~isCardModalOpen /\ ~isTxModalOpen
    /\ transactionId \in TxIds
    /\ Render(cards, SelectSeq(transactions, LAMBDA tx : tx.id # transactionId),
              notificationPermission, FALSE, TRUE)
    /\ UNCHANGED <<now, cardModalVars, txModalVars, smsVars>>

handleDeleteTransaction(transactionId, confirmed) ==
    /\ ~isCardModalOpen /\ ~isTxModalOpen
    /\ transactionId \in TxIds
    /\ IF confirmed
       THEN Render(cards, SelectSeq(transactions, LAMBDA tx : tx.id # transactionId),
                   notificationPermission, FALSE, TRUE)
       ELSE UNCHANGED storeVars
    /\ UNCHANGED <<now, cardModalVars, txModalVars, smsVars>>

-----------------------------------------------------------------------------
(* SMS ingestion *)

Message(msg) == [msg |-> msg, last4 |-> <<>>]

\* A variant of parseSmsExpense that accepts an amount of any type.
parseSmsExpense_anyAmount(response) ==
    IF response.kind # "object" THEN NULL
    ELSE IF /\ "amount" \in DOMAIN response.data
            /\ "merchant" \in DOMAIN response.data
            /\ response.data.merchant # ""
            /\ "cardLast4" \in DOMAIN response.data
            /\ Len(response.data.cardLast4) > 0
    THEN response.data
    ELSE NULL

\* parseSmsExpense on what the classification call produced: a thrown error
\* (network, malformed JSON), JSON null, or an object with some of the fields
\* merchant, amount, cardLast4 and category.  NULL stands for null.
parseSmsExpense(response) ==
    IF response.kind # "object" THEN NULL
    ELSE IF /\ "amount" \in DOMAIN response.data
            /\ response.data.amount.type = "number"
            /\ "merchant" \in DOMAIN response.data
            /\ response.data.merchant # ""
            /\ "cardLast4" \in DOMAIN response.data
            /\ Len(response.data.cardLast4) > 0
    THEN response.data
    ELSE NULL

\* cs.find(c => c.last4 === last4), as an index; 0 for undefined.
findByLast4(cs, last4) ==
    IF \E i \in 1..Len(cs) : cs[i].last4 = last4
    THEN CHOOSE i \in 1..Len(cs) : cs[i].last4 = last4 /\ \A j \in 1..(i - 1) : cs[j].last4 # last4
    ELSE 0

\* result.category || 'Other'
categoryOrOther(result) ==
    IF "category" \in DOMAIN result /\ result.category # "" THEN result.category ELSE "Other"

setSmsInput(text) ==
    /\ ~isCardModalOpen /\ ~isTxModalOpen
    /\ smsInput' = text
    /\ UNCHANGED <<now, storeVars, cardModalVars, txModalVars, isLoading, error, requests>>

\* disabled={isLoading} of the "Parse with AI" button.
\* A variant of parseDisabled for a button that is never disabled.
parseDisabled_never == FALSE

parseDisabled == isLoading

\* handleParseSms up to its await: the button is disabled while isLoading.
\* The call keeps the cards of the render the click happened in.
handleParseSms ==
    /\ ~isCardModalOpen /\ ~isTxModalOpen
    /\ ~parseDisabled
    /\ Len(transactions) + PendingAdds < MaxTx
    /\ IF Len(trim(smsInput)) = 0
       THEN /\ error' = Message("SMS message cannot be empty.")
            /\ UNCHANGED <<isLoading, requests>>
       ELSE IF Len(cards) = 0
       THEN /\ error' = Message("Please add a credit card first.")
            /\ UNCHANGED <<isLoading, requests>>
       ELSE /\ isLoading' = TRUE
            /\ error' = NULL
            /\ requests' = Append(requests, [cards |-> cards])
    /\ UNCHANGED <<now, storeVars, cardModalVars, txModalVars, smsInput>>

\* handleParseSms from its await on, when the call of the oldest request
\* produced response.
\* A variant of handleParseSms_resume that clears the loading flag only when
\* the call produced a result.
handleParseSms_resume_loadingOnFailure(response) ==
    /\ Len(requests) > 0
    /\ requests' = Tail(requests)
    /\ LET closure == Head(requests)
           result == parseSmsExpense(response)
           matchingCard == IF result = NULL THEN 0
                           ELSE findByLast4(closure.cards, result.cardLast4)
       IN  IF result = NULL
           THEN /\ error' = Message("Failed to parse SMS. Please try a different format.")
                /\ UNCHANGED <<storeVars, smsInput, isLoading>>
           ELSE IF matchingCard = 0
           THEN /\ error' = [msg |-> "Could not find a card ending in", last4 |-> result.cardLast4]
                /\ isLoading' = FALSE
                /\ UNCHANGED <<storeVars, smsInput>>
           ELSE /\ Render(cards,
                          handleSaveTransaction(transactions,
                              [editing |-> FALSE, id |-> NULL,
                               cardId |-> closure.cards[matchingCard].id,
                               merchant |-> result.merchant,
                               amount |-> result.amount.v,
                               category |-> categoryOrOther(result)]),
                          notificationPermission, FALSE, TRUE)
                /\ smsInput' = <<>>
                /\ isLoading' = FALSE
                /\ UNCHANGED error
    /\ UNCHANGED <<now, cardModalVars, txModalVars>>

handleParseSms_resume(response) ==
    /\ Len(requests) > 0
    /\ requests' = Tail(requests)
    /\ isLoading' = FALSE
    /\ LET closure == Head(requests)
           result == parseSmsExpense(response)
           matchingCard == IF result = NULL THEN 0
                           ELSE findByLast4(closure.cards, result.cardLast4)
       IN  IF result = NULL
           THEN /\ error' = Message("Failed to parse SMS. Please try a different format.")
                /\ UNCHANGED <<storeVars, smsInput>>
           ELSE IF matchingCard = 0
           THEN /\ error' = [msg |-> "Could not find a card ending in", last4 |-> result.cardLast4]
                /\ UNCHANGED <<storeVars, smsInput>>
           ELSE /\ Render(cards,
                          handleSaveTransaction(transactions,
                              [editing |-> FALSE, id |-> NULL,
                               cardId |-> closure.cards[matchingCard].id,
                               merchant |-> result.merchant,
                               amount |-> result.amount.v,
                               category |-> categoryOrOther(result)]),
                          notificationPermission, FALSE, TRUE)
                /\ smsInput' = <<>>
                /\ UNCHANGED error
    /\ UNCHANGED <<now, cardModalVars, txModalVars>>

\* The timer of showTemporaryMessage(setError, ...) fires.
errorTimeout ==
    /\ error # NULL
    /\ error' = NULL
    /\ UNCHANGED <<now, storeVars, cardModalVars, txModalVars, smsInput, isLoading, requests>>

\* The "Enable" banner (shown while the permission is 'default' and there is
\* a card) and the user's answer to the browser's prompt.
requestNotificationPermission(permission) ==
    /\ ~isCardModalOpen /\ ~isTxModalOpen
    /\ notificationPermission = "default"
    /\ Len(cards) > 0
    /\ Render(cards, transactions, permission, FALSE, FALSE)
    /\ UNCHANGED <<now, cardModalVars, txModalVars, smsVars>>

\* Time passes.
Tick ==
    /\ now < MaxNow
    /\ now' = now + 1
    /\ UNCHANGED <<storeVars, cardModalVars, txModalVars, smsVars>>

-----------------------------------------------------------------------------
Init ==
    /\ now = 0
    /\ cards = <<>>
    /\ transactions = <<>>
    /\ sentNotifications = {}
    /\ notificationPermission = "default"
    /\ cardExpenses = ComputeCardExpenses(<<>>, <<>>, 0)
    /\ monthlySummary = ComputeMonthlySummary(<<>>, 0)
    /\ isCardModalOpen = FALSE
    /\ cardToEdit = NULL
    /\ cardModalError = ""
    /\ isTxModalOpen = FALSE
    /\ transactionToEdit = NULL
    /\ txModalError = ""
    /\ smsInput = <<>>
    /\ isLoading = FALSE
    /\ error = NULL
    /\ requests = <<>>
    /\ notifications = <<>>
    /\ belowAfterSent = {}

-----------------------------------------------------------------------------
(* Plain inputs: two valid cards, a few transaction fields, and the kinds   *)
(* of answer of the classification call.                                    *)

PlainCards ==
    {[name |-> <<"V">>, last4 |-> <<"0", "4", "2", "7">>],
     [name |-> <<"M">>, last4 |-> <<"1", "2", "3", "4">>]}

PlainLimit == <<"1", "0", "0">>

Merchants == {"Cafe"}

TxCategories == {"Food", "Other"}

SmsObject(amount, last4) ==
    [merchant |-> "Cafe", amount |-> [type |-> "number", v |-> amount],
     cardLast4 |-> last4, category |-> "Food"]

\* An answer without a category, with a negative amount.
SmsRefund(last4) ==
    [merchant |-> "Cafe", amount |-> [type |-> "number", v |-> 0 - 5], cardLast4 |-> last4]

\* An answer whose category is not one of Categories.
SmsOffList(last4) ==
    [merchant |-> "Cafe", amount |-> [type |-> "number", v |-> 30],
     cardLast4 |-> last4, category |-> "Dining"]

\* Answers that name a card of PlainCards.
SmsMatching ==
    {[kind |-> "object", data |-> d] :
        d \in {SmsObject(30, <<"0", "4", "2", "7">>), SmsRefund(<<"1", "2", "3", "4">>)}}

\* Every kind of answer: a thrown error, JSON null, objects naming a known or
\* an unknown card, a category off the list, an amount that is text, a
\* missing amount, a missing merchant, a missing cardLast4.
SmsResponses ==
    {[kind |-> "throw"], [kind |-> "null"]}
    \cup {[kind |-> "object", data |-> d] :
            d \in {SmsObject(30, <<"0", "4", "2", "7">>),
                   SmsObject(30, <<"1", "2", "3", "4">>),
                   SmsObject(30, <<"9", "9", "9", "9">>),
                   SmsRefund(<<"0", "4", "2", "7">>),
                   SmsOffList(<<"0", "4", "2", "7">>),
                   [merchant |-> "Cafe", amount |-> [type |-> "string", v |-> 30],
                    cardLast4 |-> <<"0", "4", "2", "7">>, category |-> "Food"],
                   [merchant |-> "Cafe", cardLast4 |-> <<"0", "4", "2", "7">>,
                    category |-> "Food"],
                   [amount |-> [type |-> "number", v |-> 30],
                    cardLast4 |-> <<"0", "4", "2", "7">>, category |-> "Food"],
                   [merchant |-> "Cafe", amount |-> [type |-> "number", v |-> 30],
                    category |-> "Food"]}}

\* Cards and the transaction editor: transactions entered by hand, edited
\* and deleted, while months pass.
Next ==
    \/ Tick
    \/ handleOpenAddCardModal
    \/ \E c \in PlainCards : AddCardModal_handleSubmit(c.name, c.last4, PlainLimit, 1)
    \/ handleOpenAddTxModal
    \/ \E i \in 1..MaxTx : handleOpenEditTxModal(i)
    \/ AddTransactionModal_onClose
    \/ \E cardId \in CardChoices, merchant \in Merchants, category \in TxCategories :
          AddTransactionModal_handleSubmit(cardId, merchant, <<"3", "0">>, category)
    \/ \E id \in TxIds, confirmed \in BOOLEAN : handleDeleteTransaction(id, confirmed)

Spec == Init /\ [][Next]_vars

\* Every way a transaction enters or changes: by hand, by an edit, by a
\* delete and by SMS ingestion.
NextIngest ==
    \/ Tick
    \/ handleOpenAddCardModal
    \/ \E c \in PlainCards : AddCardModal_handleSubmit(c.name, c.last4, PlainLimit, 1)
    \/ handleOpenAddTxModal
    \/ \E i \in 1..MaxTx : handleOpenEditTxModal(i)
    \/ \E cardId \in CardChoices, merchant \in Merchants :
          AddTransactionModal_handleSubmit(cardId, merchant, <<"3", "0">>, "Food")
    \/ \E id \in TxIds : handleDeleteTransaction(id, TRUE)
    \/ setSmsInput(<<"s">>)
    \/ handleParseSms
    \/ \E response \in SmsMatching : handleParseSms_resume(response)

SpecIngest == Init /\ [][NextIngest]_vars

\* Math.random() picks the first or the last gradient.
GradientChoices == {1, Len(gradients)}

\* The SMS adapter while cards are added and edited.
NextSms ==
    \/ Tick
    \/ handleOpenAddCardModal
    \/ \E i \in 1..MaxCards : handleOpenEditModal(i)
    \/ AddCardModal_onClose
    \/ \E c \in PlainCards, g \in GradientChoices :
          AddCardModal_handleSubmit(c.name, c.last4, PlainLimit, g)
    \/ \E text \in {<<"s">>, <<" ">>} : setSmsInput(text)
    \/ handleParseSms
    \/ \E response \in SmsResponses : handleParseSms_resume(response)
    \/ errorTimeout

SpecSms == Init /\ [][NextSms]_vars

\* What the transaction form holds when it is submitted.
TxForms ==
    {[merchant |-> "Cafe", amount |-> <<"2", "0">>, category |-> "Food"],
     [merchant |-> "Shop", amount |-> <<"3", "0">>, category |-> "Other"]}

\* The transaction editor: transactions added and edited on two cards while
\* months pass.
NextEdit ==
    \/ Tick
    \/ handleOpenAddCardModal
    \/ \E c \in PlainCards : AddCardModal_handleSubmit(c.name, c.last4, PlainLimit, 1)
    \/ handleOpenAddTxModal
    \/ \E i \in 1..MaxTx : handleOpenEditTxModal(i)
    \/ \E cardId \in CardChoices, form \in TxForms :
          AddTransactionModal_handleSubmit(cardId, form.merchant, form.amount, form.category)

SpecEdit == Init /\ [][NextEdit]_vars

\* The SMS adapter alone, over every kind of answer.
NextParse ==
    \/ Tick
    \/ handleOpenAddCardModal
    \/ \E c \in PlainCards : AddCardModal_handleSubmit(c.name, c.last4, PlainLimit, 1)
    \/ \E text \in {<<"s">>, <<" ">>} : setSmsInput(text)
    \/ handleParseSms
    \/ \E response \in SmsResponses : handleParseSms_resume(response)
    \/ errorTimeout

SpecParse == Init /\ [][NextParse]_vars

\* The classification call settles: it resolves or rejects, and the handler
\* then resumes after its await.
SpecParseLive ==
    /\ Init /\ [][NextParse]_vars
    /\ WF_vars(\E response \in SmsResponses : handleParseSms_resume(response))

\* The notifier: a card of limit 100 or 50, transactions of 30 added, saved
\* again and deleted, the permission prompt, and months passing.
NotifierLimits == {<<"1", "0", "0">>, <<"5", "0">>}

NextNotifier ==
    \/ Tick
    \/ handleOpenAddCardModal
    \/ \E limit \in NotifierLimits :
          AddCardModal_handleSubmit(<<"V">>, <<"0", "4", "2", "7">>, limit, 1)
    \/ handleOpenAddTxModal
    \/ \E i \in 1..MaxTx : handleOpenEditTxModal(i)
    \/ \E cardId \in CardChoices :
          AddTransactionModal_handleSubmit(cardId, "Cafe", <<"3", "0">>, "Food")
    \/ \E id \in TxIds : handleDeleteTransaction(id, TRUE)
    \/ \E permission \in {"granted", "denied"} : requestNotificationPermission(permission)

SpecNotifier == Init /\ [][NextNotifier]_vars

\* The card editor alone, over every kind of text typed into its fields.
CardNames == {<<"V">>, <<" ", "v", " ">>, <<"M">>, <<" ">>}

Last4Texts ==
    {<<"0", "4", "2", "7">>, <<"1", "2", "3", "4">>, <<"1", "2", "3">>,
     <<"1", "2", "a", "3">>, <<"1", "2", "3", "4", "5">>, <<>>}

\* What the last4 field holds after the texts are typed into it.
Last4Values == {setLast4(value) : value \in Last4Texts}

\* The limit field is an input of type "number": its value is the typed text
\* when that is a number (a sign and digits here) and the empty text
\* otherwise.
IsNumberText(text) ==
    LET body == IF Len(text) > 0 /\ text[1] = "-" THEN Tail(text) ELSE text
    IN  Len(body) > 0 /\ \A i \in 1..Len(body) : body[i] \in Digit

\* A variant of numberInputValue for a field of type "text".
numberInputValue_text(text) == text

numberInputValue(text) == IF IsNumberText(text) THEN text ELSE <<>>

LimitTyped == {<<"1", "0", "0">>, <<"0">>, <<"-", "5">>, <<>>, <<"a", "b">>}

\* What the limit field holds after the texts are typed into it.
LimitTexts == {numberInputValue(text) : text \in LimitTyped}

NextCards ==
    \/ Tick
    \/ handleOpenAddCardModal
    \/ \E i \in 1..MaxCards : handleOpenEditModal(i)
    \/ AddCardModal_onClose
    \/ \E name \in CardNames, last4 \in Last4Values, limit \in LimitTexts :
          AddCardModal_handleSubmit(name, last4, limit, 1)

SpecCards == Init /\ [][NextCards]_vars

-----------------------------------------------------------------------------
(* Claims *)

RECURSIVE SumOver(_, _)
SumOver(f, S) ==
    IF S = {} THEN 0
    ELSE LET x == CHOOSE y \in S : TRUE IN f[x] + SumOver(f, S \ {x})

\* d and t are instants of the same calendar month of the same year.
SameCalendarMonth(d, t) ==
    getMonth(d) = getMonth(t) /\ getFullYear(d) = getFullYear(t)

\* The sum of amount over the transactions txs of card id dated in the
\* calendar month of instant t.
MonthSpend(txs, id, t) ==
    SumOver([i \in 1..Len(txs) |-> txs[i].amount],
            {i \in 1..Len(txs) :
                txs[i].cardId = id /\ SameCalendarMonth(DateOf(txs[i].date), t)})

\* spent is at least threshold percent of a positive limit.
Reaches(spent, limit, threshold) ==
    ~limit.nan /\ limit.v > 0 /\ spent * 100 >= threshold * limit.v

AlertKeyNow(i, threshold) ==
    <<cards[i].id, getFullYear(now), getMonth(now), threshold>>

\* C1: for every card, calendar month and threshold at most one alert is ever
\* emitted, and whenever the permission is granted and a card's spend of the
\* current month reaches a threshold, exactly one alert of that card, month
\* and threshold has been emitted.
C1_OneAlertPerCardMonthThreshold ==
    /\ \A k \in DOMAIN notifications : notifications[k] <= 1
    /\ notificationPermission = "granted" =>
          \A i \in 1..Len(cards) : \A threshold \in {30, 50, 85} :
              Reaches(MonthSpend(transactions, cards[i].id, now), cards[i].limit, threshold)
                  => Get(notifications, AlertKeyNow(i, threshold)) = 1

\* C1 witness: a card's spend fell below a threshold after its alert was
\* sent and has reached it again in the same month, with one alert emitted.
C1_Witness ==
    /\ notificationPermission = "granted"
    /\ \E i \in 1..Len(cards) :
          /\ AlertKeyNow(i, 30) \in belowAfterSent
          /\ Reaches(MonthSpend(transactions, cards[i].id, now), cards[i].limit, 30)
          /\ Get(notifications, AlertKeyNow(i, 30)) = 1

\* C2: when a classification response is handled and its cardLast4 is the
\* last4 of no card of the current card list, the outcome is the 'card not
\* found' error and the transaction list is unchanged, whatever card adds and
\* edits happened while the request was in flight.
C2_UnknownCardNotCommitted ==
    [][\A response \in SmsResponses :
          (/\ handleParseSms_resume(response)
           /\ parseSmsExpense(response) # NULL
           /\ \A i \in 1..Len(cards) : cards[i].last4 # parseSmsExpense(response).cardLast4)
          => /\ transactions' = transactions
             /\ error' = [msg |-> "Could not find a card ending in",
                          last4 |-> parseSmsExpense(response).cardLast4]]_vars

\* C3: whenever the transaction list or the card list changes, the monthly
\* card summary of every card is the sum of the amounts of the card's
\* transactions dated in the current calendar month and year, 0 for none.
C3_MonthlyCardSummary ==
    [][(transactions' # transactions \/ cards' # cards) =>
          \A i \in 1..Len(cards') :
              Get(cardExpenses', cards'[i].id) = MonthSpend(transactions', cards'[i].id, now')]_vars

\* C3 witness: a card with a transaction of an earlier year and one of the
\* current month, whose summary counts the current one only.
C3_Witness ==
    /\ Len(transactions) = 2
    /\ transactions[1].cardId = transactions[2].cardId
    /\ ~SameCalendarMonth(DateOf(transactions[1].date), now)
    /\ SameCalendarMonth(DateOf(transactions[2].date), now)
    /\ Get(cardExpenses, transactions[2].cardId) = transactions[2].amount

RECURSIVE SumPctNum(_, _)
SumPctNum(pieData, i) ==
    IF i > Len(pieData) THEN 0 ELSE pieData[i].pctNum + SumPctNum(pieData, i + 1)

\* C4: whenever the total of the category summary is greater than 0, the
\* percentages of its entries sum to 100 (each is 100 * value / total).
C4_PercentagesSumTo100 ==
    monthlySummary.total > 0 =>
        SumPctNum(monthlySummary.pieData, 1) = 100 * monthlySummary.total

\* The transaction editor is open on a transaction whose id is in the list.
EditsExistingTransaction ==
    /\ isTxModalOpen
    /\ transactionToEdit # NULL
    /\ transactionToEdit.id \in TxIds

\* C5: saving a transaction with an id that is in the transaction list leaves
\* the length of the list unchanged, keeps the id of every record, and leaves
\* every transaction with another id unchanged.
C5_SaveExistingKeepsFrame ==
    [][EditsExistingTransaction =>
          \/ /\ Len(transactions') = Len(transactions)
             /\ \A i \in 1..Len(transactions) :
                   /\ transactions'[i].id = transactions[i].id
                   /\ transactions[i].id # transactionToEdit.id
                         => transactions'[i] = transactions[i]
          \/ \A cardId \in CardChoices, merchant \in Merchants, category \in TxCategories :
                ~AddTransactionModal_handleSubmit(cardId, merchant, <<"3", "0">>, category)]_vars

\* C5 witness: an edit has been saved: beside another transaction, the record
\* with the edited id is no longer the one the editor was opened on, and is
\* one that only an edit produces (30 in category Other).
C5_Witness ==
    /\ ~isTxModalOpen
    /\ transactionToEdit # NULL
    /\ Len(transactions) = 2
    /\ \E i \in 1..Len(transactions) :
          /\ transactions[i].id = transactionToEdit.id
          /\ transactions[i] # transactionToEdit
          /\ transactions[i].date = transactionToEdit.date
          /\ transactions[i].amount = 30
          /\ transactions[i].category = "Other"
          /\ transactionToEdit.category = "Food"

\* C6: no two distinct cards have the same last4, and no two distinct cards
\* have names that are equal ignoring case.
C6_CardsUnique ==
    \A i, j \in 1..Len(cards) :
        i # j => /\ cards[i].last4 # cards[j].last4
                 /\ toLowerCase(cards[i].name) # toLowerCase(cards[j].name)

\* C6 witness: two cards, one of them renamed by an edit.
C6_Witness ==
    /\ Len(cards) = 2
    /\ ~isCardModalOpen
    /\ cardToEdit # NULL
    /\ \E i \in 1..Len(cards) :
          cards[i].id = cardToEdit.id /\ cards[i].name # cardToEdit.name

\* name equals, ignoring case, the name of a card other than the edited one.
NameClash(name) ==
    \E i \in 1..Len(cards) :
        /\ cardToEdit # NULL => cards[i].id # cardToEdit.id
        /\ toLowerCase(cards[i].name) = toLowerCase(trim(name))

\* last4 is the last4 of a card other than the edited one.
Last4Clash(last4) ==
    \E i \in 1..Len(cards) :
        /\ cardToEdit # NULL => cards[i].id # cardToEdit.id
        /\ cards[i].last4 = last4

FourDigits(s) == Len(s) = 4 /\ \A i \in 1..4 : s[i] \in Digit

\* limit is present and is not a number that is zero or negative.
LimitAcceptable(limit) ==
    /\ Len(limit) > 0
    /\ isNaN(parseFloat(limit)) \/ parseFloat(limit).v > 0

AcceptableLimits == {limit \in LimitTexts : LimitAcceptable(limit)}

NameExistsError == "A card with this name already exists."

\* The submission is accepted: the editor closes and the card is in the list.
CardAccepted(name, last4) ==
    /\ ~isCardModalOpen'
    /\ \E i \in 1..Len(cards') : cards'[i].name = trim(name) /\ cards'[i].last4 = last4

\* A card being edited is submitted under its own name.
OwnName(name) == cardToEdit # NULL /\ trim(name) = cardToEdit.name

\* The other fields of a submission are valid and last4 that of no other card.
OtherFieldsValid(last4, limit) ==
    FourDigits(last4) /\ limit \in AcceptableLimits /\ ~Last4Clash(last4)

\* C7 as stated: every submission of the card editor whose name equals,
\* ignoring case, the name of another card is rejected with the uniqueness
\* error, the card list unchanged and the editor open; a card being edited
\* and submitted under its own name is not rejected for uniqueness.
C7_DuplicateNameRejected ==
    [][\A name \in CardNames :
          /\ NameClash(name) =>
                \A last4 \in Last4Values, limit \in LimitTexts :
                    \/ /\ cards' = cards
                       /\ isCardModalOpen'
                       /\ cardModalError' = NameExistsError
                    \/ ~AddCardModal_handleSubmit(name, last4, limit, 1)
          /\ OwnName(name) =>
                \A last4 \in Last4Values, limit \in LimitTexts :
                    \/ CardAccepted(name, last4)
                    \/ ~OtherFieldsValid(last4, limit)
                    \/ ~AddCardModal_handleSubmit(name, last4, limit, 1)]_vars

\* C7 amended: every submission whose name equals, ignoring case, the name of
\* another card is rejected, the card list unchanged and the editor open, and
\* the error is the uniqueness error when last4 is four digits and the limit
\* is present and not zero or negative (the checks of presence, last4 and
\* limit come first); a card being edited and submitted under its own name
\* is not rejected for uniqueness.
C7_DuplicateNameRejectedAfterFieldChecks ==
    [][\A name \in CardNames :
          /\ NameClash(name) =>
                \A last4 \in Last4Values, limit \in LimitTexts :
                    \/ /\ cards' = cards
                       /\ isCardModalOpen'
                       /\ (FourDigits(last4) /\ limit \in AcceptableLimits)
                             => cardModalError' = NameExistsError
                    \/ ~AddCardModal_handleSubmit(name, last4, limit, 1)
          /\ OwnName(name) =>
                \A last4 \in Last4Values, limit \in LimitTexts :
                    \/ CardAccepted(name, last4)
                    \/ ~OtherFieldsValid(last4, limit)
                    \/ ~AddCardModal_handleSubmit(name, last4, limit, 1)]_vars

\* C7 witness: the edit of a card was submitted under the name of the other
\* card and the editor shows the uniqueness error.
C7_Witness ==
    /\ isCardModalOpen
    /\ cardToEdit # NULL
    /\ Len(cards) = 2
    /\ cardModalError = NameExistsError

C9_AmountsPositive ==
    \A i \in 1..Len(transactions) : transactions[i].amount > 0

\* C10: the cardId of every transaction is the id of a card of the list.
C10_TransactionsReferenceCards ==
    \A i \in 1..Len(transactions) :
        \E j \in 1..Len(cards) : cards[j].id = transactions[i].cardId

\* C10 witness: two cards, one with a transaction entered by hand and the
\* other with a transaction ingested from an SMS.
C10_Witness ==
    /\ Len(cards) = 2
    /\ Len(transactions) = 2
    /\ transactions[1].cardId # transactions[2].cardId
    /\ \E i \in 1..2 : transactions[i].amount < 0

\* C11: the category of every transaction of the list is one of Bills,
\* Entertainment, Food, Shopping, Fuel, Groceries, Health, Office, Travel,
\* Transfer and Other (an SMS answer without a category is stored as Other,
\* and one with a category off the list is not stored with it).
C11_CategoriesInSet ==
    \A i \in 1..Len(transactions) : transactions[i].category \in Range(Categories)

\* C12: at most one classification request is in flight at any time: a
\* request is in flight exactly while the loading flag disables the button,
\* and no step starts a request while one is in flight.
C12_OneRequestInFlight ==
    /\ [](Len(requests) <= 1 /\ (isLoading <=> Len(requests) = 1))
    /\ [][Len(requests) = 1 => Len(requests') <= 1]_vars

\* C12 witness: a request is in flight after an earlier one was answered
\* with a transaction.
C12_Witness ==
    /\ isLoading
    /\ Len(requests) = 1
    /\ Len(transactions) = 1

FailedToParse == [msg |-> "Failed to parse SMS. Please try a different format.", last4 |-> <<>>]

\* The classification call failed: it threw (network error, malformed JSON),
\* or its answer is not an object with a merchant, a cardLast4 and a numeric
\* amount.
CallFailed(response) ==
    \/ response.kind # "object"
    \/ "merchant" \notin DOMAIN response.data
    \/ "cardLast4" \notin DOMAIN response.data
    \/ "amount" \notin DOMAIN response.data
    \/ response.data.amount.type # "number"

FailedResponses == {response \in SmsResponses : CallFailed(response)}

\* C13: when the classification call fails, the handler reports the 'failed
\* to parse' error and leaves the card list, the transaction list and the
\* entered SMS text unchanged.
C13_FailedCallCommitsNothing ==
    [][\A response \in FailedResponses :
          \/ /\ error' = FailedToParse
             /\ cards' = cards
             /\ transactions' = transactions
             /\ smsInput' = smsInput
          \/ ~handleParseSms_resume(response)]_vars

\* C13 witness: a failed call has been reported while a card of the list has
\* a transaction and the SMS text is still in the field.
C13_Witness ==
    /\ error = FailedToParse
    /\ ~isLoading
    /\ Len(transactions) = 1
    /\ smsInput = <<"s">>

\* C14: a step after which the permission is not 'granted' emits no alert
\* and adds no key to the sent record, whatever the spend of the cards.
C14_NoAlertWithoutPermission ==
    [][notificationPermission' # "granted" =>
          /\ notifications' = notifications
          /\ sentNotifications' = sentNotifications]_vars

\* C14 witness: the permission was denied and the spend of a card is above
\* a threshold with no alert emitted and no key recorded.
C14_Witness ==
    /\ notificationPermission = "denied"
    /\ \E i \in 1..Len(cards) :
          Reaches(MonthSpend(transactions, cards[i].id, now), cards[i].limit, 50)
    /\ DOMAIN notifications = {}
    /\ sentNotifications = {}

\* A key of card i and threshold recorded for a month other than the
\* current one.
SentInAnotherMonth(i, threshold) ==
    \E k \in sentNotifications :
        /\ k[1] = cards[i].id
        /\ k[4] = threshold
        /\ <<k[2], k[3]>> # <<getFullYear(now), getMonth(now)>>

\* C15: an alert sent for a card and a threshold in one calendar month does
\* not suppress the alert of the same card and threshold in another month or
\* year: when the card's spend of the current month reaches the threshold,
\* exactly one alert of the current month has been emitted.
C15_EligibilityResetsEachMonth ==
    notificationPermission = "granted" =>
        \A i \in 1..Len(cards) : \A threshold \in {30, 50, 85} :
            (/\ SentInAnotherMonth(i, threshold)
             /\ Reaches(MonthSpend(transactions, cards[i].id, now), cards[i].limit, threshold))
                => /\ AlertKeyNow(i, threshold) \in DOMAIN notifications
                   /\ notifications[AlertKeyNow(i, threshold)] = 1

\* C15 witness: the 30% alert of a card was emitted in December 2025 and
\* once more in December 2026.
C15_Witness ==
    /\ getFullYear(now) = 2026
    /\ \E i \in 1..Len(cards) :
          /\ SentInAnotherMonth(i, 30)
          /\ Reaches(MonthSpend(transactions, cards[i].id, now), cards[i].limit, 30)
          /\ Get(notifications, AlertKeyNow(i, 30)) = 1
          /\ Get(notifications, <<cards[i].id, 2025, 11, 30>>) = 1

\* after is before without the records of the given id: the other records
\* are kept as they were, in their order, and nothing else is in the list.
RemovedById(before, after, id) ==
    LET kept == {i \in 1..Len(before) : before[i].id # id}
    IN  /\ Len(after) = Cardinality(kept)
        /\ \A j \in 1..Len(after) : after[j].id # id
        /\ \A i \in kept :
              after[Cardinality({k \in kept : k <= i})] = before[i]

\* C16: a delete that is declined leaves the transaction list unchanged; a
\* delete that is confirmed removes exactly the transactions of that id and
\* leaves the other transactions and the cards unchanged.
C16_DeleteOnlyAfterConfirm ==
    [][\A id \in TxIds :
          /\ \/ transactions' = transactions
             \/ ~handleDeleteTransaction(id, FALSE)
          /\ \/ /\ RemovedById(transactions, transactions', id)
                /\ cards' = cards
             \/ ~handleDeleteTransaction(id, TRUE)]_vars

\* C16 witness: the transaction the editor was last opened on has been
\* deleted and the other transaction is still in the list.
C16_Witness ==
    /\ ~isTxModalOpen
    /\ transactionToEdit # NULL
    /\ transactionToEdit.id \notin TxIds
    /\ Len(transactions) = 1

\* C17: the ids of the transactions of the list are pairwise distinct and
\* the ids of the cards of the list are pairwise distinct.
C17_IdsDistinct ==
    /\ \A i, j \in 1..Len(transactions) :
          i # j => transactions[i].id # transactions[j].id
    /\ \A i, j \in 1..Len(cards) :
          i # j => cards[i].id # cards[j].id

\* The card list after the step is the list before it with one card appended.
OneCardAppended ==
    /\ Len(cards') = Len(cards) + 1
    /\ SubSeq(cards', 1, Len(cards)) = cards

\* The card of the edited id is replaced in place: the number and the order
\* of the cards, every id, every gradient and every other card are kept.
EditedCardReplacedInPlace ==
    /\ Len(cards') = Len(cards)
    /\ \A i \in 1..Len(cards) :
          /\ cards'[i].id = cards[i].id
          /\ cards'[i].gradient = cards[i].gradient
          /\ cards[i].id # cardToEdit.id => cards'[i] = cards[i]

\* C18: an accepted save of the card editor in edit mode replaces the card
\* of the same id in place, keeping its id and gradient and every other
\* card; an accepted save of a new card appends exactly one card; and no
\* step makes the card list shorter.
C18_CardSaveFrame ==
    [][/\ Len(cards') >= Len(cards)
       /\ \A c \in PlainCards, g \in GradientChoices :
             \/ IF cardToEdit # NULL THEN EditedCardReplacedInPlace ELSE OneCardAppended
             \/ isCardModalOpen'
             \/ ~AddCardModal_handleSubmit(c.name, c.last4, PlainLimit, g)]_vars

\* The records of the edited id keep their id and date and hold the
\* submitted card, merchant, amount and category.
EditKeepsDate(cardId, merchant, amount, category) ==
    /\ Len(transactions') = Len(transactions)
    /\ \A i \in 1..Len(transactions) :
          transactions[i].id = transactionToEdit.id =>
              /\ transactions'[i].id = transactions[i].id
              /\ transactions'[i].date = transactions[i].date
              /\ transactions'[i].cardId = cardId
              /\ transactions'[i].merchant = merchant
              /\ transactions'[i].amount = amount
              /\ transactions'[i].category = category

\* The new record is dated now, and the summaries of the current month
\* count it.
AddedCountsNow(cardId, amount) ==
    LET new == transactions'[Len(transactions')]
    IN  /\ Len(transactions') = Len(transactions) + 1
        /\ DateOf(new.date) = now
        /\ new.cardId = cardId /\ new.amount = amount
        /\ Get(cardExpenses', cardId) =
              amount + MonthSpend(transactions, cardId, now)
        /\ monthlySummary'.total =
              amount + SumOver([i \in 1..Len(transactions) |-> transactions[i].amount],
                               {i \in 1..Len(transactions) :
                                   SameCalendarMonth(DateOf(transactions[i].date), now)})

\* C19: an accepted edit of a transaction keeps its id and date and replaces
\* its card, merchant, amount and category by the submitted ones; an
\* accepted add dates the new transaction now, and the card and category
\* summaries of the current month count it at once.
C19_EditKeepsDateAddIsNow ==
    [][\A cardId \in CardChoices, form \in TxForms :
          \/ IF transactionToEdit # NULL
             THEN EditKeepsDate(cardId, form.merchant, parseFloat(form.amount).v, form.category)
             ELSE AddedCountsNow(cardId, parseFloat(form.amount).v)
          \/ ~AddTransactionModal_handleSubmit(cardId, form.merchant, form.amount,
                                               form.category)]_vars

\* C19 witness: a transaction of an earlier year was edited onto another
\* card, merchant, amount and category and kept its date, beside a
\* transaction added now.
C19_Witness ==
    /\ ~isTxModalOpen
    /\ transactionToEdit # NULL
    /\ Len(transactions) = 2
    /\ \E i, j \in 1..2 :
          /\ transactions[i].id = transactionToEdit.id
          /\ transactions[i].date = transactionToEdit.date
          /\ getFullYear(DateOf(transactions[i].date)) < getFullYear(now)
          /\ transactions[i].cardId # transactionToEdit.cardId
          /\ transactions[i].merchant # transactionToEdit.merchant
          /\ transactions[i].amount # transactionToEdit.amount
          /\ transactions[i].category # transactionToEdit.category
          /\ DateOf(transactions[j].date) = now

\* Typed limits that are empty, not a number, zero or negative.
BadLimitTyped == {<<>>, <<"a", "b">>, <<"0">>, <<"-", "5">>}

\* C20: every submission of the card editor whose limit text is empty, not a
\* number, zero or negative is rejected with the card list unchanged, and
\* every card of the list has a numeric limit greater than 0.
C20_LimitPositive ==
    /\ [](\A i \in 1..Len(cards) : ~isNaN(cards[i].limit) /\ cards[i].limit.v > 0)
    /\ [][\A typed \in BadLimitTyped, name \in CardNames, last4 \in Last4Values :
            \/ cards' = cards /\ isCardModalOpen'
            \/ ~AddCardModal_handleSubmit(name, last4, numberInputValue(typed), 1)]_vars

\* C20 witness: beside a card of limit 100, a submission was rejected for
\* its limit.
C20_Witness ==
    /\ \E i \in 1..Len(cards) : cards[i].limit = Num(100)
    /\ isCardModalOpen
    /\ cardModalError = "Limit must be a positive number."

\* The sum of amount over the transactions txs of category c dated in the
\* calendar month of instant t.
CategorySpend(txs, c, t) ==
    SumOver([i \in 1..Len(txs) |-> txs[i].amount],
            {i \in 1..Len(txs) :
                txs[i].category = c /\ SameCalendarMonth(DateOf(txs[i].date), t)})

\* pie lists, once each, exactly the categories whose sum of the month of t
\* is greater than 0, each with that sum, in non-increasing order of value.
ListsPositiveCategories(pie, txs, t) ==
    /\ {pie[k].name : k \in 1..Len(pie)} =
          {c \in Range(Categories) : CategorySpend(txs, c, t) > 0}
    /\ \A k, l \in 1..Len(pie) : k # l => pie[k].name # pie[l].name
    /\ \A k \in 1..Len(pie) : pie[k].value = CategorySpend(txs, pie[k].name, t)
    /\ \A k \in 1..(Len(pie) - 1) : pie[k].value >= pie[k + 1].value

\* C21: whenever the transaction list changes, the category summary lists
\* exactly the categories whose sum over the current month is greater than
\* 0, each with that sum, in non-increasing order of amount; a category
\* without spend in the current month is not listed.
C21_CategorySummary ==
    [][transactions' # transactions =>
          ListsPositiveCategories(monthlySummary'.pieData, transactions', now')]_vars

\* C21 witness: Other (30) is listed before Food (20), against the order of
\* Categories, and no other category is listed.
C21_Witness ==
    /\ Len(monthlySummary.pieData) = 2
    /\ monthlySummary.pieData[1].name = "Other"
    /\ monthlySummary.pieData[1].value = 30
    /\ monthlySummary.pieData[2].name = "Food"
    /\ monthlySummary.pieData[2].value = 20

\* The three outcomes of a request, as seen on the step that handles its
\* answer.
OutcomeCommitted ==
    /\ Len(transactions') = Len(transactions) + 1
    /\ error' = error

OutcomeCardNotFound ==
    /\ transactions' = transactions
    /\ error' # NULL
    /\ error'.msg = "Could not find a card ending in"

OutcomeFailedToParse ==
    /\ transactions' = transactions
    /\ error' = FailedToParse

====
